---- MODULE Spec2Model ----
(***************************************************************************)
(* NOAA space-weather fetch-and-retain pipeline (noaa_data_fetch.py):      *)
(* the retention sweep cleanup_old_files, the fetch loop fetch_noaa_data   *)
(* with its retrying session, the resolver get_latest_file_url and the     *)
(* __main__ driver.                                                        *)
(*                                                                         *)
(* Time is in seconds since the epoch (UTC).  A file of the cache          *)
(* directory is a record [name, mtime] (its content is not inspected by    *)
(* any code of the pipeline); a file name is the sequence of its           *)
(* '_'-separated tokens plus its extension.                                *)
(***************************************************************************)
EXTENDS Integers, Sequences, FiniteSets, TLC

VARIABLES
    files,            \* the cache directory noaa_data: a set of file records
    now,              \* the wall clock, seconds since the epoch (UTC)
    tz,               \* the host's local-time offset from UTC, in seconds
    pc,               \* position of the program
    op,               \* the operation the last step performed
    listed,           \* cleanup_old_files: the directory as os.listdir saw it
    files_to_delete,  \* cleanup_old_files: the files marked for deletion
    deleted_count,    \* cleanup_old_files: removals that succeeded
    sweep,            \* parameters and outcome of the last two sweeps
    clean_ok,         \* __main__: every removal of this cycle's sweep succeeded
    tier,             \* __main__: the fetch pass running (1..3), 0 outside
    ki,               \* fetch_noaa_data: index of the key the loop is at
    phase,            \* fetch_noaa_data: position within the loop body
    url,              \* fetch_noaa_data: the URL the key resolved to
    fetched_data,     \* fetch_noaa_data: the result map, key -> payload
    req               \* the requests issued for the current key

vars == <<files, now, tz, pc, op, listed, files_to_delete, deleted_count, sweep,
          clean_ok, tier, ki, phase, url, fetched_data, req>>

sweepVars == <<listed, files_to_delete, deleted_count, sweep>>
fetchVars == <<tier, ki, phase, url, fetched_data, req>>

----------------------------------------------------------------------------
(* Bounds of the model *)

MaxDirFiles == 3        \* files a directory handed to the sweep starts with
MaxCap == 2             \* largest max_files_per_category the sweep is called with
MaxDeleteFailures == 1  \* os.remove failures within one sweep
MaxClock == 1           \* snapshots written while the sweep is exercised alone
MaxPrior == 7           \* snapshots per category earlier runs may have left
MaxWaits == 0           \* waits of the scheduler between runs of the script

----------------------------------------------------------------------------
(* Program constants *)

SecondsPerHour == 3600
DefaultMaxAgeHours == 24

DriverMaxFiles == 5
RetryTotal == 5
SessionRetries == RetryTotal
PlainRetries == 0

StartTime == 48 * SecondsPerHour

\* hours between two runs of the script
RunSpacingHours == 4

\* Local-time offsets the host may run under (hours east of UTC).
TZHours == {-5, 0, 5}

\* Ages (hours before StartTime) of files a directory may already hold.
PriorAgeHours == {1, 20, 25}

----------------------------------------------------------------------------
(* File names *)

\* key.split('_')
KeyParts(key) ==
    CASE key = "solar_radiation_xray" -> <<"solar", "radiation", "xray">>
      [] key = "geomagnetic_kp_7d" -> <<"geomagnetic", "kp", "7d">>
      [] key = "electric_field_us_canada" -> <<"electric", "field", "us", "canada">>

\* strftime("%Y%m%d%H%M%S"): the UTC time truncated to the second.
Timestamp(t) == ToString(t)

\* f"{category}_{key}_{timestamp}.json", as its '_'-separated tokens
SnapshotName(category, key, t) ==
    [parts |-> <<category>> \o KeyParts(key) \o <<Timestamp(t)>>, ext |-> "json"]

\* filename.endswith('.json')
EndsWithJson(name) == name.ext = "json"

\* '_'.join(parts[:-1])
Category(name) == SubSeq(name.parts, 1, Len(name.parts) - 1)

\* len(parts) >= 3
HasCategory(name) == Len(name.parts) >= 3

----------------------------------------------------------------------------
(* cleanup_old_files *)

\* datetime.utcnow(): naive UTC
UtcNow == now

\* datetime.fromtimestamp(st_mtime): naive LOCAL time
FromTimestamp(mtime) == mtime + tz

CutoffTime(max_age_hours) == UtcNow - max_age_hours * SecondsPerHour

\* file_time < cutoff_time
OldFiles(dir, max_age_hours) ==
    {f \in dir : EndsWithJson(f.name)
                 /\ FromTimestamp(f.mtime) < CutoffTime(max_age_hours)}

\* files_by_category
Grouped(dir) == {f \in dir : EndsWithJson(f.name) /\ HasCategory(f.name)}

Group(dir, c) == {f \in Grouped(dir) : Category(f.name) = c}

Categories(dir) == {Category(f.name) : f \in Grouped(dir)}

\* len(files) > max_files_per_category
Overfull(group, max_files) == Cardinality(group) > max_files

SliceFromNext(max_files) == max_files + 1

\* the index the slice files[max_files_per_category:] starts at
SliceFrom(max_files) == max_files

\* E is files[max_files_per_category:] of the group sorted newest first
\* (equal times keep the arbitrary os.listdir order)
IsSortedTail(group, E, max_files) ==
    /\ E \subseteq group
    /\ Cardinality(E) =
           IF Overfull(group, max_files) /\ Cardinality(group) > SliceFrom(max_files)
           THEN Cardinality(group) - SliceFrom(max_files)
           ELSE 0
    /\ \A e \in E : \A k \in group \ E :
           FromTimestamp(e.mtime) <= FromTimestamp(k.mtime)

RemovedOnlyFirst(marked, failing) ==
    IF marked \ failing = {} THEN {}
    ELSE {CHOOSE f \in marked \ failing : TRUE}

\* the files the os.remove loop removes: every marked file whose removal
\* does not raise OSError
Removed(marked, failing) == marked \ failing

\* files that are in files[max_files_per_category:] whatever the order of
\* equal times: at least max_files files of the group are strictly newer
SureTail(group, max_files) ==
    IF ~Overfull(group, max_files) THEN {}
    ELSE {f \in group :
            Cardinality({g \in group : FromTimestamp(g.mtime) > FromTimestamp(f.mtime)})
                >= SliceFrom(max_files)}

\* files whose place in the sorted list depends on the order of equal times
TiedAtCut(group, max_files) ==
    IF ~Overfull(group, max_files) THEN {}
    ELSE {f \in group \ SureTail(group, max_files) :
            Cardinality({g \in group : FromTimestamp(g.mtime) >= FromTimestamp(f.mtime)})
                > SliceFrom(max_files)}

CleanupOldFiles(max_age_hours, max_files) ==
    \E ties \in SUBSET UNION {TiedAtCut(Group(files, c), max_files) :
                                 c \in Categories(files)} :
      /\ \A c \in Categories(files) :
            IsSortedTail(Group(files, c),
                         SureTail(Group(files, c), max_files)
                             \cup (ties \cap Group(files, c)),
                         max_files)
      /\ LET excess == ties \cup UNION {SureTail(Group(files, c), max_files) :
                                          c \in Categories(files)}
             marked == OldFiles(files, max_age_hours) \cup excess IN
         \E failing \in SUBSET marked :
           /\ Cardinality(failing) <= MaxDeleteFailures
           /\ listed' = files
           /\ files_to_delete' = marked
           /\ deleted_count' = Cardinality(Removed(marked, failing))
           /\ files' = files \ Removed(marked, failing)
           /\ sweep' = [age |-> max_age_hours, cap |-> max_files,
                        at |-> UtcNow,
                        failed |-> Cardinality(failing),
                        prev |-> IF op = "cleanup"
                                 THEN [age |-> sweep.age, cap |-> sweep.cap,
                                       deleted |-> deleted_count,
                                       failed |-> sweep.failed]
                                 ELSE [age |-> 0, cap |-> 0, deleted |-> 0, failed |-> 0]]
           /\ op' = "cleanup"

NoSweep == [age |-> 0, cap |-> 0, at |-> 0, failed |-> 0,
            prev |-> [age |-> 0, cap |-> 0, deleted |-> 0, failed |-> 0]]

\* cleanup_old_files has returned: its locals are gone
SweepReturned ==
    /\ listed' = {}
    /\ files_to_delete' = {}
    /\ deleted_count' = 0
    /\ sweep' = NoSweep

NoRequests ==
    [alt |-> 0, ok |-> 0, index |-> 0, alias |-> 0, scan |-> 0,
     listing |-> <<>>, n |-> 0, last |-> -1, wrote |-> 0]

\* no fetch_noaa_data call is running
FetchIdle ==
    /\ tier = 0
    /\ ki = 0
    /\ phase = "none"
    /\ url = <<>>
    /\ fetched_data = {}
    /\ req = NoRequests


----------------------------------------------------------------------------
(* The endpoint catalog, cut down to one entry per tier: a single path,    *)
(* the list of alternates and a directory.                                 *)

NOAA_BASE_URL == "https://services.swpc.noaa.gov/json/"

PRIMARY_ENDPOINTS ==
    << [key |-> "solar_radiation_xray",
        endpoint |-> [list |-> FALSE,
                      paths |-> <<"goes/primary/xrays-1-day.json">>]] >>

SECONDARY_ENDPOINTS ==
    << [key |-> "geomagnetic_kp_7d",
        endpoint |-> [list |-> TRUE,
                      paths |-> <<"geospace/geospce_pred_est_kp_7_day.json",
                                  "geospace/geosapce_pred_est_kp_7_day.json">>]] >>

TERTIARY_ENDPOINTS ==
    << [key |-> "electric_field_us_canada",
        endpoint |-> [list |-> FALSE, paths |-> <<"lists/rgeojson/US-Canada-1D/">>]] >>

\* the three calls of __main__, in order
Passes ==
    << [category |-> "primary", data_endpoints |-> PRIMARY_ENDPOINTS],
       [category |-> "secondary", data_endpoints |-> SECONDARY_ENDPOINTS],
       [category |-> "tertiary", data_endpoints |-> TERTIARY_ENDPOINTS] >>

\* isinstance(endpoint, list)
IsList(endpoint) == endpoint.list

\* endpoint.endswith('/')
EndsWithSlash(endpoint) == endpoint.paths[1] \in {"lists/rgeojson/US-Canada-1D/"}

\* f"{NOAA_BASE_URL}{ep}"
Url(ep) == <<NOAA_BASE_URL, ep>>

\* f"{base_url}{directory_path}{latest_file}"
FileUrl(directory_path, file) == <<NOAA_BASE_URL, directory_path, file>>

\* the payload a URL serves, as parsed by response.json()
Payload(u) == u

----------------------------------------------------------------------------
(* The remote service: what a request may be answered with *)

Timeout == 0

\* HTTP statuses the service answers with; Timeout stands for a request
\* that raises (timeout, connection error) instead of returning a response
Statuses == {200, 404, 503, Timeout}

\* bodies of index.json: the "files" list of the listing
IndexListings ==
    { <<>>,
      <<[filename |-> "a.json", timestamp |-> 1],
        [filename |-> "c.json", timestamp |-> 3],
        [filename |-> "b.json", timestamp |-> 2]>>,
      <<[filename |-> "c.json", timestamp |-> 2],
        [filename |-> "a.json", timestamp |-> 2]>> }

\* file names of the directory page matching
\* (\d{8}T\d{6}-15-Efield-[\w.-]+\.json), in lexicographic order
EfieldNames ==
    << "20240101T000000-15-Efield-x.json", "20240102T000000-15-Efield-x.json" >>

\* what re.findall finds in a directory page: nothing, or both names
ListingPages == { {}, {1, 2} }

----------------------------------------------------------------------------
(* The retrying session: Retry(total=5, status_forcelist=[...]) *)

StatusForcelistWith404 == {404, 429, 500, 502, 503, 504}

\* status_forcelist=[429, 500, 502, 503, 504]
StatusForcelist == {429, 500, 502, 503, 504}

\* the adapter re-issues the request: the response has a status of the
\* forcelist, or none came (urllib3 retries connection and read errors of
\* a GET too), and the budget `total` is not used up
ShouldRetryAlso404(status, used, total) ==
    /\ status \in StatusForcelistWith404 \cup {Timeout}
    /\ used < total

ShouldRetry(status, used, total) ==
    /\ status \in StatusForcelist \cup {Timeout}
    /\ used < total

\* session.get + raise_for_status succeed
IsSuccess(status) == status = 200

----------------------------------------------------------------------------
(* get_latest_file_url *)

MinTimestampFile(listing) ==
    LET i == CHOOSE i \in 1..Len(listing) :
                 \A j \in 1..Len(listing) : listing[j].timestamp >= listing[i].timestamp
    IN listing[i].filename

\* max(files, key=lambda f: f['timestamp'])['filename']: the first entry
\* of maximal timestamp
LatestFile(listing) ==
    LET i == CHOOSE i \in 1..Len(listing) :
                 /\ \A j \in 1..Len(listing) : listing[j].timestamp <= listing[i].timestamp
                 /\ \A j \in 1..(i - 1) : listing[j].timestamp < listing[i].timestamp
    IN listing[i].filename

\* sorted(filenames, reverse=True)[0]
LatestListed(found) ==
    EfieldNames[CHOOSE i \in found : \A j \in found : j <= i]

----------------------------------------------------------------------------
(* The sweep on its own: cleanup_old_files called on bounded directories *)

PriorFile(category, key, age) ==
    [name |-> SnapshotName(category, key, StartTime - age * SecondsPerHour),
     mtime |-> StartTime - age * SecondsPerHour]

ForeignFiles ==
    { [name |-> [parts |-> <<"notes", "old">>, ext |-> "json"],
       mtime |-> StartTime - 30 * SecondsPerHour],
      [name |-> [parts |-> <<"README">>, ext |-> "txt"],
       mtime |-> StartTime - 30 * SecondsPerHour] }

\* a snapshot written 40 hours ago and modified again 20 hours ago
TouchedFile ==
    [name |-> SnapshotName("primary", "solar_radiation_xray", StartTime - 40 * SecondsPerHour),
     mtime |-> StartTime - 20 * SecondsPerHour]

CandidateFiles ==
    {PriorFile("primary", "solar_radiation_xray", a) : a \in PriorAgeHours}
    \cup {TouchedFile}
    \cup {PriorFile("secondary", "geomagnetic_kp_7d", 1)}
    \cup ForeignFiles

InitCleanup ==
    /\ files \in {d \in SUBSET CandidateFiles : Cardinality(d) <= MaxDirFiles}
    /\ now = StartTime
    /\ tz \in {h * SecondsPerHour : h \in TZHours}
    /\ pc = "lib"
    /\ op = "init"
    /\ listed = {}
    /\ files_to_delete = {}
    /\ deleted_count = 0
    /\ sweep = NoSweep
    /\ clean_ok = TRUE
    /\ FetchIdle

LibCleanup ==
    /\ pc = "lib"
    /\ \E cap \in 1..MaxCap : CleanupOldFiles(DefaultMaxAgeHours, cap)
    /\ UNCHANGED <<now, tz, pc, clean_ok, fetchVars>>

\* a second later another snapshot lands in the directory
LibCreate ==
    /\ pc = "lib"
    /\ now < StartTime + MaxClock
    /\ now' = now + 1
    /\ files' = files \cup {[name |-> SnapshotName("primary", "solar_radiation_xray", now + 1),
                              mtime |-> now + 1]}
    /\ op' = "create"
    /\ SweepReturned
    /\ UNCHANGED <<tz, pc, clean_ok, fetchVars>>

NextCleanup == LibCleanup \/ LibCreate

SpecCleanup == InitCleanup /\ [][NextCleanup]_vars


----------------------------------------------------------------------------
(* fetch_noaa_data *)

Endpoints == Passes[tier].data_endpoints

Entry == Endpoints[ki]

\* TERTIARY_ENDPOINTS[directory_key]
DirectoryPath == Entry.endpoint.paths[1]

\* what session.get(url) of the final fetch may be answered with: a status,
\* and for a 200 a body that parses as JSON or one that does not
GetOutcomes ==
    {[status |-> st, body |-> "json"] : st \in Statuses}
    \cup {[status |-> 200, body |-> "garbage"]}

\* response.json() raises requests.exceptions.JSONDecodeError, a
\* RequestException, from requests 2.27 on, and a plain ValueError before:
\* whether line 151 catches it depends on the installed library
JsonErrorIsRequestException == BOOLEAN

\* open(file_path, "w") + json.dump: creates the file or truncates it
WriteFile(dir, name) ==
    {f \in dir : f.name # name} \cup {[name |-> name, mtime |-> now]}

\* fetched_data[key] = data
Store(map, key, data) ==
    {e \in map : e.key # key} \cup {[key |-> key, data |-> data]}

\* the loop body is over for this key: on to the next one.  Of the
\* requests made for the key, the record keeps the alternates tried, the
\* last call's re-issues and last status, and whether a file was written.
KeyDone(outcome, status, wrote) ==
    /\ ki' = ki + 1
    /\ phase' = "key"
    /\ url' = <<>>
    /\ req' = [NoRequests EXCEPT !.alt = req.alt, !.ok = req.ok, !.n = req.n,
                                 !.last = status, !.wrote = wrote]
    /\ op' = outcome

\* for key, endpoint in data_endpoints.items(): the shape of the target
\* decides how the URL is found
Dispatch ==
    /\ pc = "fetch"
    /\ phase = "key"
    /\ ki <= Len(Endpoints)
    /\ IF IsList(Entry.endpoint)
       THEN /\ phase' = "alternates"
            /\ req' = [NoRequests EXCEPT !.alt = 1]
            /\ url' = <<>>
       ELSE IF EndsWithSlash(Entry.endpoint)
       THEN /\ phase' = "index"
            /\ req' = NoRequests
            /\ url' = <<>>
       ELSE /\ phase' = "get"
            /\ req' = NoRequests
            /\ url' = Url(Entry.endpoint.paths[1])
    /\ op' = "dispatch"
    /\ SweepReturned
    /\ UNCHANGED <<files, now, tz, pc, clean_ok, tier, ki, fetched_data>>

\* for ep in endpoint: session.get(url); raise_for_status(); break / continue
TryAlternate ==
    /\ pc = "fetch"
    /\ phase = "alternates"
    /\ \E status \in Statuses :
         IF ShouldRetry(status, req.n, RetryTotal)
         THEN /\ req' = [req EXCEPT !.n = @ + 1, !.last = status]
              /\ op' = "retry"
              /\ UNCHANGED <<ki, phase, url>>
         ELSE IF IsSuccess(status)
         THEN /\ url' = Url(Entry.endpoint.paths[req.alt])
              /\ req' = [req EXCEPT !.ok = req.alt, !.n = 0, !.last = status]
              /\ phase' = "get"
              /\ op' = "alternate_ok"
              /\ UNCHANGED ki
         ELSE IF req.alt < Len(Entry.endpoint.paths)
         THEN /\ req' = [req EXCEPT !.alt = @ + 1, !.n = 0, !.last = status]
              /\ op' = "alternate_failed"
              /\ UNCHANGED <<ki, phase, url>>
         ELSE KeyDone("skipped", status, 0)
    /\ UNCHANGED <<files, now, tz, pc, sweepVars, clean_ok, tier, fetched_data>>

\* strategy 1: requests.get(index_url)
IndexLookup ==
    /\ pc = "fetch"
    /\ phase = "index"
    /\ \E status \in Statuses, listing \in IndexListings :
         IF ShouldRetry(status, req.n, PlainRetries)
         THEN /\ req' = [req EXCEPT !.n = @ + 1, !.index = @ + 1, !.last = status]
              /\ op' = "retry"
              /\ UNCHANGED <<phase, url>>
         ELSE IF status = 200 /\ listing # <<>>
         THEN /\ url' = FileUrl(DirectoryPath, LatestFile(listing))
              /\ req' = [req EXCEPT !.index = @ + 1, !.listing = listing,
                                    !.n = 0, !.last = status]
              /\ phase' = "get"
              /\ op' = "index_ok"
         ELSE \* not 200, or max() of an empty list raises, or the request raised
              /\ req' = [req EXCEPT !.index = @ + 1, !.n = 0, !.last = status]
              /\ phase' = "alias"
              /\ op' = "index_failed"
              /\ UNCHANGED url
    /\ UNCHANGED <<files, now, tz, pc, sweepVars, clean_ok, tier, ki, fetched_data>>

\* strategy 2: requests.head(latest_url)
AliasProbe ==
    /\ pc = "fetch"
    /\ phase = "alias"
    /\ \E status \in Statuses :
         IF ShouldRetry(status, req.n, PlainRetries)
         THEN /\ req' = [req EXCEPT !.n = @ + 1, !.alias = @ + 1, !.last = status]
              /\ op' = "retry"
              /\ UNCHANGED <<phase, url>>
         ELSE IF status = 200
         THEN /\ url' = FileUrl(DirectoryPath, "latest.json")
              /\ req' = [req EXCEPT !.alias = @ + 1, !.n = 0, !.last = status]
              /\ phase' = "get"
              /\ op' = "alias_ok"
         ELSE /\ req' = [req EXCEPT !.alias = @ + 1, !.n = 0, !.last = status]
              /\ phase' = "scan"
              /\ op' = "alias_failed"
              /\ UNCHANGED url
    /\ UNCHANGED <<files, now, tz, pc, sweepVars, clean_ok, tier, ki, fetched_data>>

\* strategy 3: requests.get(list_url) and re.findall; None when all failed
ListingScan ==
    /\ pc = "fetch"
    /\ phase = "scan"
    /\ \E status \in Statuses, found \in ListingPages :
         IF ShouldRetry(status, req.n, PlainRetries)
         THEN /\ req' = [req EXCEPT !.n = @ + 1, !.scan = @ + 1, !.last = status]
              /\ op' = "retry"
              /\ UNCHANGED <<ki, phase, url>>
         ELSE IF status = 200 /\ found # {}
         THEN /\ url' = FileUrl(DirectoryPath, LatestListed(found))
              /\ req' = [req EXCEPT !.scan = @ + 1, !.n = 0, !.last = status]
              /\ phase' = "get"
              /\ op' = "scan_ok"
              /\ UNCHANGED ki
         ELSE KeyDone("skipped", status, 0)
    /\ UNCHANGED <<files, now, tz, pc, sweepVars, clean_ok, tier, fetched_data>>

\* session.get(url); raise_for_status(); response.json(); store and save
FetchUrl ==
    /\ pc = "fetch"
    /\ phase = "get"
    /\ \E o \in GetOutcomes, caught \in JsonErrorIsRequestException :
         IF ShouldRetry(o.status, req.n, RetryTotal)
         THEN /\ req' = [req EXCEPT !.n = @ + 1, !.last = o.status]
              /\ op' = "retry"
              /\ UNCHANGED <<files, pc, ki, phase, url, fetched_data>>
         ELSE IF IsSuccess(o.status) /\ o.body = "json"
         THEN /\ fetched_data' = Store(fetched_data, Entry.key, Payload(url))
              /\ files' = WriteFile(files,
                                    SnapshotName(Passes[tier].category, Entry.key, UtcNow))
              /\ KeyDone("stored", o.status, 1)
              /\ UNCHANGED pc
         ELSE IF IsSuccess(o.status) /\ ~caught
         THEN \* the ValueError leaves fetch_noaa_data and ends the script
              /\ req' = [req EXCEPT !.last = o.status]
              /\ pc' = "crashed"
              /\ op' = "abort"
              /\ UNCHANGED <<files, ki, phase, url, fetched_data>>
         ELSE \* except requests.exceptions.RequestException: log
              /\ KeyDone(IF IsSuccess(o.status) THEN "unparsed" ELSE "failed",
                         o.status, 0)
              /\ UNCHANGED <<files, pc, fetched_data>>
    /\ UNCHANGED <<now, tz, sweepVars, clean_ok, tier>>

\* return fetched_data: __main__ goes on to its next call, or ends
Return ==
    /\ pc = "fetch"
    /\ phase = "key"
    /\ ki > Len(Endpoints)
    /\ IF tier < Len(Passes)
       THEN /\ tier' = tier + 1
            /\ ki' = 1
            /\ fetched_data' = {}
            /\ op' = "return"
            /\ UNCHANGED <<pc, phase>>
       ELSE /\ pc' = "idle"
            /\ tier' = 0
            /\ ki' = 0
            /\ phase' = "none"
            /\ fetched_data' = {}
            /\ op' = "complete"
    /\ url' = <<>>
    /\ req' = NoRequests
    /\ UNCHANGED <<files, now, tz, sweepVars, clean_ok>>

----------------------------------------------------------------------------
(* __main__, run again and again by an external scheduler *)

\* the directory n earlier runs left behind, one every RunSpacingHours
PriorRuns(n) ==
    {PriorFile("primary", "solar_radiation_xray", RunSpacingHours * i) : i \in 1..n}

Init ==
    /\ files \in {PriorRuns(n) : n \in {0, MaxPrior}}
    /\ now = StartTime
    /\ tz \in {h * SecondsPerHour : h \in TZHours}
    /\ pc = "idle"
    /\ op = "init"
    /\ listed = {}
    /\ files_to_delete = {}
    /\ deleted_count = 0
    /\ sweep = NoSweep
    /\ clean_ok = TRUE
    /\ FetchIdle

\* the script starts, at once or after the scheduler's wait
Run ==
    /\ pc = "idle"
    /\ \E wait \in {0, RunSpacingHours * SecondsPerHour} :
         /\ now + wait <= StartTime + MaxWaits * RunSpacingHours * SecondsPerHour
         /\ now' = now + wait
    /\ pc' = "cleanup"
    /\ op' = "run"
    /\ UNCHANGED <<files, tz, sweepVars, clean_ok, fetchVars>>

\* cleanup_old_files(DATA_DIR, max_age_hours=24, max_files_per_category=5),
\* then the first call of fetch_noaa_data
MainCleanup ==
    /\ pc = "cleanup"
    /\ CleanupOldFiles(DefaultMaxAgeHours, DriverMaxFiles)
    /\ clean_ok' = (sweep'.failed = 0)
    /\ pc' = "fetch"
    /\ tier' = 1
    /\ ki' = 1
    /\ phase' = "key"
    /\ UNCHANGED <<now, tz, url, fetched_data, req>>

Next ==
    \/ Run
    \/ MainCleanup
    \/ Dispatch
    \/ TryAlternate
    \/ IndexLookup
    \/ AliasProbe
    \/ ListingScan
    \/ FetchUrl
    \/ Return

Spec == Init /\ [][Next]_vars

----------------------------------------------------------------------------
(* Claims about cleanup_old_files, checked under SpecCleanup *)

\* the file's modification time is older than (current time - max_age_hours),
\* both taken on the same (UTC) clock
TrulyOld(f) == f.mtime < sweep.at - sweep.age * SecondsPerHour

\* C3: after a sweep, every .json file the directory held whose modification
\* time is older than now - max_age_hours is in the deletion set, whatever
\* its category's count and whatever the host's offset from UTC.
C3_AgeLaw ==
    op = "cleanup" =>
        \A f \in listed :
            (EndsWithJson(f.name) /\ TrulyOld(f)) => f \in files_to_delete

\* C4: after a sweep whose removals all succeeded, a category that held
\* M > max_files_per_category files, all within the age window, has lost
\* exactly M - max_files_per_category files, and no deleted file of it is
\* newer than a surviving one.
C4_CountLaw ==
    (op = "cleanup" /\ sweep.failed = 0) =>
        \A c \in Categories(listed) :
            LET group == Group(listed, c)
                gone == group \ files
            IN (Cardinality(group) > sweep.cap /\ \A f \in group : ~TrulyOld(f))
               => /\ Cardinality(gone) = Cardinality(group) - sweep.cap
                  /\ \A d \in gone : \A k \in group \ gone : d.mtime <= k.mtime

\* the sweep directly follows another sweep with the same parameters: no
\* file was created and no time passed in between (LibCreate resets op)
SecondInSuccession ==
    /\ op = "cleanup"
    /\ sweep.prev.cap = sweep.cap
    /\ sweep.prev.age = sweep.age

----------------------------------------------------------------------------
(* Claims about fetch_noaa_data, get_latest_file_url and __main__,         *)
(* checked under Spec                                                      *)

KeyDoneOps == {"stored", "failed", "unparsed", "skipped"}

\* the loop has just finished the body for the key at index ki - 1
JustFinished == pc = "fetch" /\ phase = "key" /\ op \in KeyDoneOps

Finished == Endpoints[ki - 1]

IsSinglePath(endpoint) == ~IsList(endpoint) /\ ~EndsWithSlash(endpoint)

FetchedKeys == {e.key : e \in fetched_data}

\* C1: when the alternates before the k-th failed and the k-th answered
\* with success, the result map holds the k-th alternate's payload for
\* the key, and no alternate after the k-th was requested.
C1_FirstSuccessWins ==
    (JustFinished /\ IsList(Finished.endpoint) /\ req.ok > 0) =>
        /\ [key |-> Finished.key,
            data |-> Payload(Url(Finished.endpoint.paths[req.ok]))] \in fetched_data
        /\ req.alt <= req.ok

\* C2: no failure of a key ends the run: the script is never aborted out
\* of the loop, and a key that failed is absent from the result map.
C2_FailuresIsolated ==
    /\ pc # "crashed"
    /\ (JustFinished /\ op # "stored") => Finished.key \notin FetchedKeys

\* C6: the strategies run in the order index, alias, scan, each only after
\* the one before failed; when the index lookup yields a listing the URL is
\* that of an entry of maximal timestamp and neither the alias nor the
\* directory page is requested.
C6_IndexFirst ==
    /\ req.alias > 0 => (req.index > 0 /\ req.listing = <<>>)
    /\ req.scan > 0 => req.alias > 0
    /\ phase = "alias" => req.index > 0
    /\ phase = "scan" => req.alias > 0
    /\ req.listing # <<>> =>
          /\ phase = "get"
          /\ req.alias = 0
          /\ req.scan = 0
          /\ \E i \in 1..Len(req.listing) :
                /\ url = FileUrl(DirectoryPath, req.listing[i].filename)
                /\ \A j \in 1..Len(req.listing) :
                       req.listing[j].timestamp <= req.listing[i].timestamp

C6_Witness ==
    /\ op = "index_ok"
    /\ Len(req.listing) = 3
    /\ url = FileUrl(DirectoryPath, "c.json")
    /\ req.alias = 0

\* C7 as stated: the alias probe that is counted as failed with a status of
\* the retry set was issued under the session's policy, 1 + 5 times.
C7_ProbeRetried ==
    (op = "alias_failed" /\ req.last \in StatusForcelist) => req.alias = RetryTotal + 1

\* C7 amended: the alias probe is one HEAD request, without retry: any
\* answer but a 200, a status of the retry set included, counts the probe
\* as failed after that single request.
C7_ProbeNotRetried ==
    /\ req.alias <= 1
    /\ op \in {"alias_failed", "alias_ok"} => req.alias = 1
    /\ (phase = "alias" /\ op = "retry") => FALSE

C7_Witness ==
    /\ op = "alias_failed"
    /\ req.last = 503
    /\ req.alias = 1
    /\ phase = "scan"

\* a step of the final fetch of a single-path key
SinglePathFetch ==
    pc = "fetch" /\ phase = "get" /\ IsSinglePath(Entry.endpoint)

\* C8: for a single-path key the request is re-issued at most 5 times and,
\* when a response came, only after a status of the retry set; a 200 after
\* at most 5 such answers stores the key and writes its snapshot file; an
\* error status outside the set fails the key at once, and a failed key
\* writes no file.
C8_RetryPolicy ==
    /\ [](/\ req.n <= RetryTotal
          /\ (SinglePathFetch /\ req.n > 0) => req.last \in StatusForcelist \cup {Timeout}
          /\ (JustFinished /\ IsSinglePath(Finished.endpoint) /\ req.last = 404)
                => (op = "failed" /\ Finished.key \notin FetchedKeys /\ req.wrote = 0))
    /\ [][SinglePathFetch =>
            /\ op' = "retry" => req.last' \in StatusForcelist \cup {Timeout}
            /\ op' = "stored" =>
                  /\ \E f \in files' :
                        f.name = SnapshotName(Passes[tier].category, Entry.key, UtcNow)
                  /\ Cardinality(files' \ files) <= 1
                  /\ Entry.key \in {e.key : e \in fetched_data'}
                  /\ req.wrote' = 1
            /\ op' \in {"failed", "unparsed", "retry", "abort"} =>
                  UNCHANGED <<files, fetched_data>>
            /\ req.last' \notin StatusForcelist \cup {Timeout, 200} => op' = "failed"
            /\ (req.last' = 200 /\ op' \notin {"unparsed", "abort"}) => op' = "stored"]_vars

C8_Witness ==
    /\ JustFinished
    /\ IsSinglePath(Finished.endpoint)
    /\ op = "stored"
    /\ req.n = 3
    /\ req.wrote = 1

\* a key is fetched successfully
StoreStep == pc = "fetch" /\ phase = "get" /\ op' = "stored"

\* C9: every successful fetch of a key adds exactly one file to the
\* directory and leaves the files already there in place.
C9_AppendOnly ==
    [][StoreStep => (files \subseteq files'
                     /\ Cardinality(files') = Cardinality(files) + 1)]_vars

\* C10: right after a sweep of __main__ whose removals all succeeded no
\* category holds more than 5 files, and from there to the end of the
\* cycle no category holds more than 5 + 1.
C10_Bounded ==
    /\ (pc = "fetch" /\ op = "cleanup" /\ clean_ok) =>
          \A c \in Categories(files) :
              Cardinality(Group(files, c)) <= DriverMaxFiles
    /\ ((pc = "fetch" \/ op = "complete") /\ clean_ok) =>
          \A c \in Categories(files) :
              Cardinality(Group(files, c)) <= DriverMaxFiles + 1

C10_Witness ==
    /\ op = "complete"
    /\ clean_ok
    /\ \E c \in Categories(files) : Cardinality(Group(files, c)) = DriverMaxFiles + 1

====
